---------------------------- MODULE Spec2Model ----------------------------
(***************************************************************************)
(* Colour_Models: the conversion engine (RGB, CMYK, CIE XYZ, CIE Lab) of   *)
(* mainwindow.cpp and the MainWindow shell that drives it.                 *)
(*                                                                         *)
(* Numbers.  The engine computes in `double'.  Here a double is an exact   *)
(* rational number num/den whose numerator and denominator are unbounded   *)
(* integers, so +, -, *, / and the comparisons are those of the reals.     *)
(* The two library functions that leave the rationals, std::pow and        *)
(* std::cbrt, return the real result cut to PowDigits decimal places (and  *)
(* exactly when the real result has at most that many places), the way     *)
(* the C library returns it cut to 53 binary places.                       *)
(* An unbounded integer is a sequence of limbs in radix Radix, least       *)
(* significant first, without leading zero limbs; <<>> is zero.            *)
(*                                                                         *)
(* Specifications.  Spec: a caller chains conversions of the engine on a   *)
(* value of one of the four colour spaces.  SpecCmyk: the same caller on   *)
(* a grid of sRGB triples and the two CMYK conversions.  SpecShell: a user *)
(* edits the widgets of the constructed MainWindow.                        *)
(***************************************************************************)
EXTENDS Integers, Sequences, FiniteSets, Bags, TLC

VARIABLES
    input,      \* engine: the value the caller started from
    arg,        \* engine: the argument of the last conversion called
    val,        \* engine: the value the last conversion returned
    path,       \* engine: the conversions called so far, in order
    clip,       \* engine: the clipped flag of the last xyzToRgb / labToRgb
    mw,         \* shell: the MainWindow object (widgets and internalUpdate)
    edits       \* shell: the number of user events handled so far

vars == <<input, arg, val, path, clip, mw, edits>>

Radix == 100 * 100

\* Decimal places kept by std::pow and std::cbrt in this model.
PowDigits == 8

----------------------------------------------------------------------------
(* Arithmetic of double.  Every operation that works on whole numbers goes *)
(* through the one recursive operator Eval, which selects the operation   *)
(* by name; the definitions right below give the operations their names.   *)

RECURSIVE Eval(_, _)

\* -1, 0, 1 as a < b, a = b, a > b
NCmp(a, b) == Eval("NCmp", <<a, b>>)
NAdd(a, b) == Eval("NAdd", <<a, b>>)
\* a - b for a >= b
NSub(a, b) == Eval("NSub", <<a, b>>)
\* a * s for a machine natural s with s * Radix within the int range
NMulLimb(a, s) == Eval("NMulLimb", <<a, s>>)
NMul(a, b) == Eval("NMul", <<a, b>>)
\* n \div d for naturals n, d with d > 0, when it is at most INT_MAX
NQuot(n, d) == Eval("NQuot", <<n, d>>)
\* the digits of the k-th root of n / d, see NRoot
NRootOf(n, d, k) == Eval("NRoot", <<n, d, k>>)
RAdd(a, b) == Eval("RAdd", <<a, b>>)
RMul(a, b) == Eval("RMul", <<a, b>>)
\* a / b for b # 0
RDiv(a, b) == Eval("RDiv", <<a, b>>)
\* -1, 0, 1 as a < b, a = b, a > b
RCmp(a, b) == Eval("RCmp", <<a, b>>)
\* int(std::round(x)): the set of values the conversion can give
RoundToInt(x) == Eval("RoundToInt", <<x>>)
\* the decimal literal m * 10^(-places), of either sign of places
Dec(m, places) == Eval("Dec", <<m, places>>)
\* double(n) for an int n
RInt(n) == Eval("RInt", <<n>>)
RNeg(a) == Eval("RNeg", <<a>>)
RSub(a, b) == Eval("RSub", <<a, b>>)

\* The sum of a sequence of naturals
Sum(s) == BagCardinality([i \in DOMAIN s |-> s[i] + 1]) - Len(s)

RECURSIVE NStrip(_)
NStrip(a) ==
    IF a = <<>> THEN <<>>
    ELSE IF a[Len(a)] = 0 THEN NStrip(SubSeq(a, 1, Len(a) - 1))
    ELSE a

RECURSIVE NOfInt(_)
NOfInt(n) == IF n = 0 THEN <<>> ELSE <<n % Radix>> \o NOfInt(n \div Radix)

RECURSIVE NCmpFrom(_, _, _)
NCmpFrom(a, b, i) ==
    IF i = 0 THEN 0
    ELSE IF i >= 8 /\ SubSeq(a, i - 7, i) = SubSeq(b, i - 7, i)
         THEN NCmpFrom(a, b, i - 8)
    ELSE IF a[i] < b[i] THEN -1
    ELSE IF a[i] > b[i] THEN 1
    ELSE NCmpFrom(a, b, i - 1)

\* One round of carries: every digit keeps its part below Radix and takes
\* the carry (or the borrow, a negative carry) of the digit below it.
Pass(s) ==
    [i \in 1..Len(s) |->
        (s[i] % Radix) + (IF i = 1 THEN 0 ELSE s[i - 1] \div Radix)] \o <<>>

RECURSIVE Carry(_)
\* The limbs of the natural whose digits are the integers s, the top digit
\* leaving room for the carries: rounds of carries until every digit is a
\* limb.
Carry(s) ==
    IF \A i \in 1..Len(s) : s[i] >= 0 /\ s[i] < Radix THEN s
    ELSE Carry(Pass(s))

Limb(a, i) == IF i <= Len(a) THEN a[i] ELSE 0

Longer(a, b) == IF Len(a) < Len(b) THEN Len(b) ELSE Len(a)

\* The products a[i] * b[j] with i + j = k + 1
Column(a, b, k) ==
    LET lo == IF k > Len(b) THEN k - Len(b) + 1 ELSE 1
        hi == IF k > Len(a) THEN Len(a) ELSE k
    IN [i \in 1..(hi - lo + 1) |-> a[lo + i - 1] * b[k + 2 - lo - i]]

SumLow(col) == Sum([i \in DOMAIN col |-> col[i] % Radix])

SumHigh(col) == Sum([i \in DOMAIN col |-> col[i] \div Radix])

\* The column sums of a * b, n = Len(a) + Len(b): taken whole when the
\* columns are short enough for a sum to stay in the int range, else as the
\* low halves of a column plus the high halves of the column before
Columns(a, b, n) ==
    IF Len(a) <= 20 \/ Len(b) <= 20
    THEN [k \in 1..n |-> IF k = n THEN 0 ELSE Sum(Column(a, b, k))]
    ELSE [k \in 1..n |->
             (IF k = n THEN 0 ELSE SumLow(Column(a, b, k)))
             + (IF k = 1 THEN 0 ELSE SumHigh(Column(a, b, k - 1)))]

\* -1, 0, 1 as a < b, a = b, a > b
Compare(a, b) ==
    CASE Len(a) < Len(b) -> -1
      [] Len(a) > Len(b) -> 1
      [] OTHER -> NCmpFrom(a, b, Len(a))

Product(a, b) ==
    IF a = <<>> \/ b = <<>> THEN <<>>
    ELSE NStrip(Carry(Columns(a, b, Len(a) + Len(b)) \o <<>>))

RECURSIVE NPow(_, _)
NPow(a, k) == IF k = 1 THEN a ELSE Product(a, NPow(a, k - 1))

\* 10^k
NTen(k) == [i \in 1..(k \div 4) |-> 0]
           \o <<CASE k % 4 = 0 -> 1 [] k % 4 = 1 -> 10
                  [] k % 4 = 2 -> 100 [] OTHER -> 1000>>

INT_MAX == 2147483647
INT_MIN == -INT_MAX - 1

\* The n digits of a natural, lowest first, from its highest digits top,
\* highest first: the digit below them is q, the digits further down are 0
Digits(top, q, n) ==
    [j \in 1..n |-> CASE j < n - Len(top) -> 0
                      [] j = n - Len(top) -> q
                      [] OTHER -> top[n + 1 - j]] \o <<>>

\* m^k * d <= rhs, for the digits m of a natural (leading zeros allowed)
Fits(m, k, d, rhs) == Compare(Product(NPow(NStrip(m), k), d), rhs) <= 0

\* the middle of lo..hi, the upper one of two
Mid(lo, hi) == lo + (hi - lo + 1) \div 2

RECURSIVE DigitBis(_, _, _, _, _, _, _, _)
\* the largest q in lo..hi for which q * step fits as the digit below top,
\* given that lo does
DigitBis(top, n, lo, hi, step, k, d, rhs) ==
    CASE lo = hi -> lo
      [] Fits(Digits(top, Mid(lo, hi) * step, n), k, d, rhs) ->
           DigitBis(top, n, Mid(lo, hi), hi, step, k, d, rhs)
      [] OTHER -> DigitBis(top, n, lo, Mid(lo, hi) - 1, step, k, d, rhs)

\* the largest digit that fits below top: its hundreds, then its units
Digit(top, n, k, d, rhs) ==
    LET units(h) == DigitBis(top, n, 100 * h, 100 * h + 99, 1, k, d, rhs)
    IN units(DigitBis(top, n, 0, 99, 100, k, d, rhs))

RECURSIVE RootFrom(_, _, _, _, _)
\* the largest natural of n digits with m^k * d <= rhs whose highest digits
\* are top
RootFrom(top, n, k, d, rhs) ==
    IF Len(top) = n THEN NStrip([j \in 1..n |-> top[n + 1 - j]] \o <<>>)
    ELSE RootFrom(Append(top, Digit(top, n, k, d, rhs)), n, k, d, rhs)

\* The largest natural m with m^k * d <= rhs, for d > 0: found digit by
\* digit from the top; m has no more digits than the k-th root of rhs / d.
FloorRoot(rhs, d, k) ==
    IF Len(rhs) < Len(d) THEN <<>>
    ELSE RootFrom(<<>>, (Len(rhs) - Len(d)) \div k + 1, k, d, rhs)

\* The k-th root of the natural quotient n / d cut to PowDigits decimal
\* places, as a multiple of 10^(-PowDigits): the largest m with
\* (m / 10^PowDigits)^k <= n / d.
NRoot(n, d, k) == FloorRoot(NMul(n, NTen(k * PowDigits)), d, k)

\* the machine integer of a natural below Radix^3
NToInt(a) == Limb(a, 1) + Limb(a, 2) * Radix + Limb(a, 3) * Radix * Radix

----------------------------------------------------------------------------
(* Unbounded integers: a sign and a magnitude                              *)

ZMk(neg, mag) == [neg |-> neg /\ mag # <<>>, mag |-> mag]

ZOfInt(n) == IF n < 0 THEN ZMk(TRUE, NOfInt(-n)) ELSE ZMk(FALSE, NOfInt(n))

ZNeg(a) == ZMk(~a.neg, a.mag)

ZAdd(a, b) ==
    IF a.neg = b.neg THEN ZMk(a.neg, NAdd(a.mag, b.mag))
    ELSE IF NCmp(a.mag, b.mag) >= 0 THEN ZMk(a.neg, NSub(a.mag, b.mag))
    ELSE ZMk(b.neg, NSub(b.mag, a.mag))

ZMulN(a, n) == ZMk(a.neg, NMul(a.mag, n))

ZCmp(a, b) ==
    IF a.neg /\ ~b.neg THEN -1
    ELSE IF ~a.neg /\ b.neg THEN 1
    ELSE IF a.neg THEN NCmp(b.mag, a.mag)
    ELSE NCmp(a.mag, b.mag)

----------------------------------------------------------------------------
(* Rationals: the values of type double                                    *)

R(num, den) == [num |-> num, den |-> den]

\* The results an out-of-range double-to-int conversion can give: the
\* conversion is undefined; x86 yields INT_MIN, saturating targets yield
\* INT_MAX or INT_MIN, and 0 stands for any other value.
OutOfRangeCast == {INT_MIN, 0, INT_MAX}

\* |std::round(x)|: halves go away from zero.  TRUE when it exceeds INT_MAX.
RoundTooBig(x) ==
    NCmp(NAdd(NMulLimb(x.num.mag, 2), x.den),
         NMul(NMulLimb(x.den, 2), NAdd(NOfInt(INT_MAX), <<1>>))) >= 0

RoundMag(x) == NQuot(NAdd(NMulLimb(x.num.mag, 2), x.den), NMulLimb(x.den, 2))

RLt(a, b) == RCmp(a, b) < 0
RLe(a, b) == RCmp(a, b) <= 0
RGt(a, b) == RCmp(a, b) > 0
REq(a, b) == RCmp(a, b) = 0

\* A faulty maximum, its first argument: CmykOfRgb must fail on it
First(a, b) == a

RMax(a, b) == IF RLt(a, b) THEN b ELSE a

----------------------------------------------------------------------------
(* The two library functions that leave the rationals                      *)

\* The k-th root of x >= 0 cut to PowDigits decimal places: the largest
\* m / 10^PowDigits whose k-th power is at most x.
Root(x, k) ==
    [num |-> [neg |-> FALSE, mag |-> NRootOf(x.num.mag, x.den, k)],
     den |-> NTen(PowDigits)]

\* std::cbrt(t): odd, so the root of |t| with the sign of t
cbrt(t) == IF t.num.neg THEN RNeg(Root(RNeg(t), 3)) ELSE Root(t, 3)

\* std::pow(x, 2.4) for x >= 0: x^2 * (x^2)^(1/5)
pow_2_4(x) ==
    LET times(sq) == RMul(sq, Root(sq, 5))
    IN times(RMul(x, x))

\* std::pow(v, 1.0/2.4) for v >= 0: ((v^(1/3))^(1/4))^5
pow_1_2_4(v) ==
    LET fifth(w, w2) == RMul(w, RMul(w2, w2))
        square(w) == fifth(w, RMul(w, w))
    IN square(Root(Root(v, 3), 4))

----------------------------------------------------------------------------
(* The conversion engine                                                   *)

Zero == RInt(0)
One == RInt(1)

REF_X == Dec(95047, 3)
REF_Y == Dec(1000, 1)
REF_Z == Dec(108883, 3)

\* A faulty clampInt that clamps nothing: ChannelsInRange must fail on it
NoClamp(v, lo, hi) == v

clampInt(v, lo, hi) ==
    LET min(a, b) == IF b < a THEN b ELSE a
        max(a, b) == IF a < b THEN b ELSE a
    IN max(lo, min(hi, v))

rgbToCmyk(rgb) ==
    LET cmyk(rn, gn, bn, k) ==
            IF RLt(k, RSub(One, Dec(1, 12)))
            THEN [c |-> RDiv(RSub(RSub(One, rn), k), RSub(One, k)),
                  m |-> RDiv(RSub(RSub(One, gn), k), RSub(One, k)),
                  y |-> RDiv(RSub(RSub(One, bn), k), RSub(One, k)),
                  k |-> k]
            ELSE [c |-> Zero, m |-> Zero, y |-> Zero, k |-> k]
        key(rn, gn, bn) ==
            cmyk(rn, gn, bn, RSub(One, RMax(rn, RMax(gn, bn))))
    IN key(RDiv(RInt(rgb.r), RInt(255)), RDiv(RInt(rgb.g), RInt(255)),
           RDiv(RInt(rgb.b), RInt(255)))

\* A faulty cmykToRgb that leaves the black key out: CmykRoundTrip must
\* fail on it
NoKey(cmyk) ==
    {[r |-> ri, g |-> gi, b |-> bi] :
        ri \in RoundToInt(RMul(RInt(255), RSub(One, cmyk.c))),
        gi \in RoundToInt(RMul(RInt(255), RSub(One, cmyk.m))),
        bi \in RoundToInt(RMul(RInt(255), RSub(One, cmyk.y)))}

\* the set of results: a channel whose rounded value does not fit an int
\* is converted with undefined behaviour before it is clamped
cmykToRgb(cmyk) ==
    LET r == RMul(RMul(RInt(255), RSub(One, cmyk.c)), RSub(One, cmyk.k))
        g == RMul(RMul(RInt(255), RSub(One, cmyk.m)), RSub(One, cmyk.k))
        b == RMul(RMul(RInt(255), RSub(One, cmyk.y)), RSub(One, cmyk.k))
    IN {[r |-> clampInt(ri, 0, 255), g |-> clampInt(gi, 0, 255),
         b |-> clampInt(bi, 0, 255)] :
            ri \in RoundToInt(r), gi \in RoundToInt(g), bi \in RoundToInt(b)}

invGamma(v) ==
    IF RLe(v, Dec(4045, 5)) THEN RDiv(v, Dec(1292, 2))
    ELSE pow_2_4(RDiv(RAdd(v, Dec(55, 3)), Dec(1055, 3)))

gammaSRGB(v) ==
    IF RLe(v, Dec(31308, 7)) THEN RMul(Dec(1292, 2), v)
    ELSE RSub(RMul(Dec(1055, 3), pow_1_2_4(v)), Dec(55, 3))

rgbToXyz(rgb) ==
    LET xyz(rl, gl, bl) ==
            [X |-> RMul(RAdd(RAdd(RMul(rl, Dec(4124564, 7)),
                                  RMul(gl, Dec(3575761, 7))),
                             RMul(bl, Dec(1804375, 7))), RInt(100)),
             Y |-> RMul(RAdd(RAdd(RMul(rl, Dec(2126729, 7)),
                                  RMul(gl, Dec(7151522, 7))),
                             RMul(bl, Dec(721750, 7))), RInt(100)),
             Z |-> RMul(RAdd(RAdd(RMul(rl, Dec(193339, 7)),
                                  RMul(gl, Dec(1191920, 7))),
                             RMul(bl, Dec(9503041, 7))), RInt(100))]
    IN xyz(invGamma(RDiv(RInt(rgb.r), RInt(255))),
           invGamma(RDiv(RInt(rgb.g), RInt(255))),
           invGamma(RDiv(RInt(rgb.b), RInt(255))))

\* xyzToRgb up to its gamma-corrected channels r, g, b (before the flag,
\* the rounding and the clamp)
gammaChannels(xyz) ==
    LET rgb(x, y, z) ==
            [r |-> gammaSRGB(RAdd(RAdd(RMul(x, Dec(32406, 4)),
                                       RMul(y, Dec(-15372, 4))),
                                  RMul(z, Dec(-4986, 4)))),
             g |-> gammaSRGB(RAdd(RAdd(RMul(x, Dec(-9689, 4)),
                                       RMul(y, Dec(18758, 4))),
                                  RMul(z, Dec(415, 4)))),
             b |-> gammaSRGB(RAdd(RAdd(RMul(x, Dec(557, 4)),
                                       RMul(y, Dec(-2040, 4))),
                                  RMul(z, Dec(10570, 4))))]
    IN rgb(RDiv(xyz.X, RInt(100)), RDiv(xyz.Y, RInt(100)),
           RDiv(xyz.Z, RInt(100)))

\* A faulty flag that misses the channels above 1: ClippedIffOutOfUnit must
\* fail on it
BelowZero(ch) == RLt(ch.r, Zero) \/ RLt(ch.g, Zero) \/ RLt(ch.b, Zero)

\* the clipped flag xyzToRgb raises on the gamma-corrected channels ch
outOfUnit(ch) ==
    \/ RLt(ch.r, Zero) \/ RGt(ch.r, One)
    \/ RLt(ch.g, Zero) \/ RGt(ch.g, One)
    \/ RLt(ch.b, Zero) \/ RGt(ch.b, One)

\* the set of pairs (rgb, clipped) the call can return
xyzToRgb(xyz) ==
    LET out(ch, clipped) ==
            {[rgb |-> [r |-> clampInt(Ri, 0, 255), g |-> clampInt(Gi, 0, 255),
                       b |-> clampInt(Bi, 0, 255)],
              clipped |-> clipped] :
                 Ri \in RoundToInt(RMul(ch.r, RInt(255))),
                 Gi \in RoundToInt(RMul(ch.g, RInt(255))),
                 Bi \in RoundToInt(RMul(ch.b, RInt(255)))}
        flag(ch) == out(ch, outOfUnit(ch))
    IN flag(gammaChannels(xyz))

\* the lambda f of xyzToLab
f(t) ==
    IF RGt(t, Dec(8856, 6)) THEN cbrt(t)
    ELSE RAdd(RMul(Dec(7787, 3), t), RDiv(RInt(16), RInt(116)))

xyzToLab(xyz) ==
    LET lab(fx, fy, fz) ==
            [L |-> RSub(RMul(RInt(116), fy), RInt(16)),
             a |-> RMul(RInt(500), RSub(fx, fy)),
             b |-> RMul(RInt(200), RSub(fy, fz))]
    IN lab(f(RDiv(xyz.X, REF_X)), f(RDiv(xyz.Y, REF_Y)),
           f(RDiv(xyz.Z, REF_Z)))

\* A faulty invf that always takes the cube: XyzRoundTrip must fail on it
CubeOnly(t) == RMul(RMul(t, t), t)

\* the lambda invf of labToXyz
invf(t) ==
    LET pick(t3) ==
            IF RGt(t3, Dec(8856, 6)) THEN t3
            ELSE RDiv(RSub(t, RDiv(RInt(16), RInt(116))), Dec(7787, 3))
    IN pick(RMul(RMul(t, t), t))

labToXyz(lab) ==
    LET xyz(fx, fy, fz) ==
            [X |-> RMul(invf(fx), REF_X), Y |-> RMul(invf(fy), REF_Y),
             Z |-> RMul(invf(fz), REF_Z)]
        from(fy) == xyz(RAdd(RDiv(lab.a, RInt(500)), fy), fy,
                        RSub(fy, RDiv(lab.b, RInt(200))))
    IN from(RDiv(RAdd(lab.L, RInt(16)), RInt(116)))

\* A faulty labToRgb that drops the flag: LabToRgbFlag must fail on it
Unflagged(lab) ==
    {[rgb |-> out.rgb, clipped |-> FALSE] :
        out \in Eval("xyzToRgb", <<labToXyz(lab)>>)}

rgbToLab(rgb) == Eval("xyzToLab", <<rgbToXyz(rgb)>>)

labToRgb(lab) == Eval("xyzToRgb", <<labToXyz(lab)>>)

----------------------------------------------------------------------------
(* The shell: the MainWindow object.  A window m holds the sliders'        *)
(* values, the line edits' texts, the warning label, the preview colour    *)
(* and internalUpdate.  A member function maps a window to the set of      *)
(* windows it can leave behind; its body is the list of its statements.    *)
(* Beside the fields of the class a window carries a record of what ran:   *)
(*   active    the handlers (or the constructor) now running               *)
(*   reentered a handler was called while another one was running          *)
(*   loose     the program called setValue while internalUpdate was false  *)
(*   muted     valueChanged signals of the last user edit that found       *)
(*             internalUpdate true, so that their callback did nothing     *)
(*   setFrom   the setFrom... functions the last user edit ran             *)
(*   lastSet   the setFrom... function that ran last                       *)

\* Handlers running at once that the model follows
MaxNest == 1

Sliders == {"sR", "sG", "sB", "sL", "sa", "sb", "sC", "sM", "sY", "sK"}

LineEdits == {"eR", "eG", "eB", "eL", "ea", "eb", "eC", "eM", "eY", "eK"}

\* QSlider::setRange of the constructor
minimum(s) == IF s \in {"sa", "sb"} THEN -128 ELSE 0

maximum(s) ==
    CASE s \in {"sR", "sG", "sB"} -> 255
      [] s \in {"sa", "sb"} -> 127
      [] OTHER -> 100

DigitChars == <<"0", "1", "2", "3", "4", "5", "6", "7", "8", "9">>

RECURSIVE decimal(_)
\* the decimal digits of n >= 0
decimal(n) ==
    IF n < 10 THEN <<DigitChars[n + 1]>>
    ELSE Append(decimal(n \div 10), DigitChars[(n % 10) + 1])

\* QString::number(int): a text is the sequence of its characters
number(n) == IF n < 0 THEN <<"-">> \o decimal(-n) ELSE decimal(n)

IsNumber(t) ==
    t # <<>> /\ \A i \in 1..Len(t) : \E d \in 1..10 : DigitChars[d] = t[i]

RECURSIVE valueOf(_)
valueOf(t) ==
    IF t = <<>> THEN 0
    ELSE valueOf(SubSeq(t, 1, Len(t) - 1)) * 10
         + (CHOOSE d \in 0..9 : DigitChars[d + 1] = t[Len(t)])

\* QString::toInt: the number a text of digits with an optional sign
\* denotes, and 0 for any other text
toInt(t) ==
    CASE IsNumber(t) -> valueOf(t)
      [] t # <<>> /\ t[1] = "-" /\ IsNumber(Tail(t)) -> -valueOf(Tail(t))
      [] t # <<>> /\ t[1] = "+" /\ IsNumber(Tail(t)) -> valueOf(Tail(t))
      [] OTHER -> 0

\* QString::toDouble, on the texts a QIntValidator lets through
toDouble(t) == RInt(toInt(t))

\* The text setFromLab puts on the warning label (the source's is Russian)
WarningText == "LAB -> RGB: some values left 0..255 and were clipped"

\* The widgets as the constructor creates them, before the default colour
Widgets ==
    [slider |-> [s \in Sliders |-> 0], text |-> [e \in LineEdits |-> <<>>],
     warningLabel |-> "", preview |-> <<>>, internalUpdate |-> FALSE,
     active |-> 0, reentered |-> FALSE, loose |-> FALSE, muted |-> 0,
     setFrom |-> <<>>, lastSet |-> "none"]

\* A faulty setInternalUpdate that leaves the guard down: NoFeedback must
\* fail on it
Unguarded(m, v) == m

setInternalUpdate(m, v) == [m EXCEPT !.internalUpdate = v]

\* QLineEdit::setText: it emits no editingFinished
setText(m, e, t) == [m EXCEPT !.text[e] = t]

\* A faulty clear that leaves the text: WarningIffClippedLab must fail on it
Keep(m) == m

\* QLabel::clear of the warning label
clear(m) == [m EXCEPT !.warningLabel = ""]

\* A call of the handler named h with the further arguments a
Enter(m, h, a) ==
    IF m.active >= MaxNest THEN {[m EXCEPT !.reentered = TRUE]}
    ELSE {[n EXCEPT !.active = m.active] :
             n \in Eval(h, <<[m EXCEPT !.active = @ + 1,
                                      !.reentered = @ \/ m.active > 0]>> \o a)}

\* The lambda connected to valueChanged of the slider s
valueChanged(m, s) ==
    IF ~m.internalUpdate
    THEN Enter(m, CASE s \in {"sR", "sG", "sB"} -> "onRgbSliderChanged"
                    [] s \in {"sL", "sa", "sb"} -> "onLabSliderChanged"
                    [] OTHER -> "onCmykSliderChanged", <<>>)
    ELSE {[m EXCEPT !.muted = @ + 1]}

\* The lambda connected to editingFinished of the line edit e
editingFinished(m, e) ==
    IF ~m.internalUpdate
    THEN Enter(m, CASE e \in {"eR", "eG", "eB"} -> "onRgbEditChanged"
                    [] e \in {"eL", "ea", "eb"} -> "onLabEditChanged"
                    [] OTHER -> "onCmykEditChanged", <<>>)
    ELSE {m}

\* QSlider::setValue called by the program: the value is bounded to the
\* range, and valueChanged is emitted when it changes
setValue(m, s, v) ==
    LET set(n, w) ==
            IF w = m.slider[s] THEN {n}
            ELSE valueChanged([n EXCEPT !.slider[s] = w], s)
    IN set([m EXCEPT !.loose = @ \/ ~m.internalUpdate],
           clampInt(v, minimum(s), maximum(s)))

\* One statement of a member function
Step(m, st) ==
    CASE st[1] = "setInternalUpdate" -> {setInternalUpdate(m, st[2])}
      [] st[1] = "setValue" -> setValue(m, st[2], st[3])
      [] st[1] = "setText" -> {setText(m, st[2], st[3])}
      [] st[1] = "clear" -> {clear(m)}
      [] st[1] = "warn" -> {[m EXCEPT !.warningLabel = WarningText]}

RECURSIVE Run(_, _)
\* The statements stmts in order, from any window of M
Run(M, stmts) ==
    IF stmts = <<>> \/ M = {} THEN M
    ELSE Run(UNION {Step(m, Head(stmts)) : m \in M}, Tail(stmts))

\* int(std::round(x * 100.0)) twice: for the slider and for the text
Percent(x) ==
    RoundToInt(RMul(x, RInt(100))) \X RoundToInt(RMul(x, RInt(100)))

\* int(std::round(x)) twice: for the slider and for the text
Rounded(x) == RoundToInt(x) \X RoundToInt(x)

\* The statements that show an RGB value on its sliders and line edits
ShowRgb(rgb) ==
    <<<<"setValue", "sR", rgb.r>>, <<"setValue", "sG", rgb.g>>,
      <<"setValue", "sB", rgb.b>>, <<"setText", "eR", number(rgb.r)>>,
      <<"setText", "eG", number(rgb.g)>>, <<"setText", "eB", number(rgb.b)>>>>

\* The statements that show CMYK percentages (each a pair: slider, text)
ShowCmyk(pc, pm, py, pk) ==
    <<<<"setValue", "sC", pc[1]>>, <<"setValue", "sM", pm[1]>>,
      <<"setValue", "sY", py[1]>>, <<"setValue", "sK", pk[1]>>,
      <<"setText", "eC", number(pc[2])>>, <<"setText", "eM", number(pm[2])>>,
      <<"setText", "eY", number(py[2])>>, <<"setText", "eK", number(pk[2])>>>>

\* The statements that show Lab values (each a pair: slider, text)
ShowLab(lL, la, lb) ==
    <<<<"setValue", "sL", lL[1]>>, <<"setValue", "sa", la[1]>>,
      <<"setValue", "sb", lb[1]>>, <<"setText", "eL", number(lL[2])>>,
      <<"setText", "ea", number(la[2])>>, <<"setText", "eb", number(lb[2])>>>>

\* The window on entry of the function fn that previews rgb
Preview(m, fn, rgb) ==
    [m EXCEPT !.preview = rgb, !.setFrom = Append(@, fn), !.lastSet = fn]

setFromRGB(m, r, g, b) ==
    LET show(rgb, cmyk, lab) ==
            UNION {Run({Preview(m, "setFromRGB", rgb)},
                       <<<<"setInternalUpdate", TRUE>>>>
                       \o ShowCmyk(pc, pm, py, pk) \o ShowLab(lL, la, lb)
                       \o <<<<"setInternalUpdate", FALSE>>, <<"clear">>>>) :
                      pc \in Percent(cmyk.c), pm \in Percent(cmyk.m),
                      py \in Percent(cmyk.y), pk \in Percent(cmyk.k),
                      lL \in Rounded(lab.L), la \in Rounded(lab.a),
                      lb \in Rounded(lab.b)}
    IN UNION {show(rgb, cmyk, lab) :
                 rgb \in {[r |-> r, g |-> g, b |-> b]},
                 cmyk \in {rgbToCmyk([r |-> r, g |-> g, b |-> b])},
                 lab \in {rgbToLab([r |-> r, g |-> g, b |-> b])}}

setFromLab(m, L, a_, b_) ==
    LET show(out, cmyk) ==
            UNION {Run({Preview(m, "setFromLab", out.rgb)},
                       <<<<"setInternalUpdate", TRUE>>>>
                       \o ShowRgb(out.rgb) \o ShowCmyk(pc, pm, py, pk)
                       \o <<<<"setInternalUpdate", FALSE>>,
                            IF out.clipped THEN <<"warn">> ELSE <<"clear">>>>) :
                      pc \in Percent(cmyk.c), pm \in Percent(cmyk.m),
                      py \in Percent(cmyk.y), pk \in Percent(cmyk.k)}
    IN UNION {show(out, rgbToCmyk(out.rgb)) :
                 out \in labToRgb([L |-> L, a |-> a_, b |-> b_])}

setFromCmyk(m, c, m_, y, k) ==
    LET show(rgb, lab) ==
            UNION {Run({Preview(m, "setFromCmyk", rgb)},
                       <<<<"setInternalUpdate", TRUE>>>>
                       \o ShowRgb(rgb) \o ShowLab(lL, la, lb)
                       \o <<<<"setInternalUpdate", FALSE>>, <<"clear">>>>) :
                      lL \in Rounded(lab.L), la \in Rounded(lab.a),
                      lb \in Rounded(lab.b)}
    IN UNION {show(rgb, rgbToLab(rgb)) :
                 rgb \in cmykToRgb([c |-> c, m |-> m_, y |-> y, k |-> k])}

\* The window when the user's edit reaches its handler: the record of what
\* the edit ran starts empty
Edit(m) == [m EXCEPT !.muted = 0, !.setFrom = <<>>]

onRgbSliderChanged(m) ==
    LET then(r, g, b) ==
            UNION {setFromRGB(n, r, g, b) :
                      n \in Run({Edit(m)},
                                <<<<"setInternalUpdate", TRUE>>,
                                  <<"setText", "eR", number(r)>>,
                                  <<"setText", "eG", number(g)>>,
                                  <<"setText", "eB", number(b)>>,
                                  <<"setInternalUpdate", FALSE>>>>)}
    IN then(m.slider.sR, m.slider.sG, m.slider.sB)

onRgbEditChanged(m) ==
    LET then(r, g, b) ==
            UNION {setFromRGB(n, r, g, b) :
                      n \in Run({Edit(m)},
                                <<<<"setInternalUpdate", TRUE>>,
                                  <<"setValue", "sR", r>>,
                                  <<"setValue", "sG", g>>,
                                  <<"setValue", "sB", b>>,
                                  <<"setInternalUpdate", FALSE>>>>)}
    IN then(toInt(m.text.eR), toInt(m.text.eG), toInt(m.text.eB))

onLabSliderChanged(m) ==
    LET then(L, a, b) ==
            UNION {setFromLab(n, L, a, b) :
                      n \in UNION {Run({Edit(m)},
                                       <<<<"setInternalUpdate", TRUE>>,
                                         <<"setText", "eL", number(tL)>>,
                                         <<"setText", "ea", number(ta)>>,
                                         <<"setText", "eb", number(tb)>>,
                                         <<"setInternalUpdate", FALSE>>>>) :
                                      tL \in RoundToInt(L), ta \in RoundToInt(a),
                                      tb \in RoundToInt(b)}}
    IN then(RInt(m.slider.sL), RInt(m.slider.sa), RInt(m.slider.sb))

onLabEditChanged(m) ==
    LET then(L, a, b) ==
            UNION {setFromLab(n, L, a, b) :
                      n \in UNION {Run({Edit(m)},
                                       <<<<"setInternalUpdate", TRUE>>,
                                         <<"setValue", "sL", vL>>,
                                         <<"setValue", "sa", va>>,
                                         <<"setValue", "sb", vb>>,
                                         <<"setInternalUpdate", FALSE>>>>) :
                                      vL \in RoundToInt(L), va \in RoundToInt(a),
                                      vb \in RoundToInt(b)}}
    IN then(toDouble(m.text.eL), toDouble(m.text.ea), toDouble(m.text.eb))

onCmykSliderChanged(m) ==
    LET then(c, m_, y, k) ==
            UNION {setFromCmyk(n, c, m_, y, k) :
                      n \in Run({Edit(m)},
                                <<<<"setInternalUpdate", TRUE>>,
                                  <<"setText", "eC", number(m.slider.sC)>>,
                                  <<"setText", "eM", number(m.slider.sM)>>,
                                  <<"setText", "eY", number(m.slider.sY)>>,
                                  <<"setText", "eK", number(m.slider.sK)>>,
                                  <<"setInternalUpdate", FALSE>>>>)}
    IN then(RDiv(RInt(m.slider.sC), RInt(100)),
            RDiv(RInt(m.slider.sM), RInt(100)),
            RDiv(RInt(m.slider.sY), RInt(100)),
            RDiv(RInt(m.slider.sK), RInt(100)))

onCmykEditChanged(m) ==
    LET then(c, m_, y, k) ==
            UNION {setFromCmyk(n, RDiv(RInt(c), RInt(100)),
                               RDiv(RInt(m_), RInt(100)),
                               RDiv(RInt(y), RInt(100)),
                               RDiv(RInt(k), RInt(100))) :
                      n \in Run({Edit(m)},
                                <<<<"setInternalUpdate", TRUE>>,
                                  <<"setValue", "sC", c>>,
                                  <<"setValue", "sM", m_>>,
                                  <<"setValue", "sY", y>>,
                                  <<"setValue", "sK", k>>,
                                  <<"setInternalUpdate", FALSE>>>>)}
    IN then(toInt(m.text.eC), toInt(m.text.eM), toInt(m.text.eY),
            toInt(m.text.eK))

\* col is what QColorDialog::getColor returned: [valid, r, g, b]
onOpenColorDialog(m, col) ==
    IF ~col.valid THEN {m}
    ELSE UNION {setFromRGB(n, col.r, col.g, col.b) :
                   n \in Run({Edit(m)},
                             <<<<"setInternalUpdate", TRUE>>>>
                             \o ShowRgb(col)
                             \o <<<<"setInternalUpdate", FALSE>>>>)}

\* The end of the constructor (the default colour, white) on the widgets w:
\* the set of windows it can construct
MainWindow(w) ==
    {[m EXCEPT !.active = 0] :
        m \in UNION {setFromRGB(n, 255, 255, 255) :
                        n \in Run({[w EXCEPT !.active = 1]},
                                  <<<<"setInternalUpdate", TRUE>>,
                                    <<"setValue", "sR", 255>>,
                                    <<"setValue", "sG", 255>>,
                                    <<"setValue", "sB", 255>>,
                                    <<"setText", "eR", <<"2", "5", "5">>>>,
                                    <<"setText", "eG", <<"2", "5", "5">>>>,
                                    <<"setText", "eB", <<"2", "5", "5">>>>,
                                    <<"setInternalUpdate", FALSE>>>>)}}

----------------------------------------------------------------------------
(* Evaluation: the operation named op applied to the arguments x.  The     *)
(* whole-number operations are defined here; a conversion of the engine is *)
(* evaluated by its definition above.                                      *)

Eval(op, x) ==
    CASE x = <<>> -> x
      [] op = "NCmp" -> Compare(x[1], x[2])
      [] op = "NAdd" ->
           NStrip(Carry([i \in 1..(Longer(x[1], x[2]) + 1) |->
                            Limb(x[1], i) + Limb(x[2], i)] \o <<>>))
      [] op = "NSub" ->
           NStrip(Carry([i \in 1..Len(x[1]) |->
                            x[1][i] - Limb(x[2], i)] \o <<>>))
      [] op = "NMulLimb" ->
           NStrip(Carry([i \in 1..(Len(x[1]) + 2) |->
                            Limb(x[1], i) * x[2]] \o <<>>))
      [] op = "NMul" -> Product(x[1], x[2])
      [] op = "NQuot" -> NToInt(FloorRoot(x[1], x[2], 1))
      [] op = "NRoot" -> NRoot(x[1], x[2], x[3])
      [] op = "RAdd" ->
           IF x[1].den = x[2].den
           THEN R(ZAdd(x[1].num, x[2].num), x[1].den)
           ELSE R(ZAdd(ZMulN(x[1].num, x[2].den), ZMulN(x[2].num, x[1].den)),
                  NMul(x[1].den, x[2].den))
      [] op = "RMul" ->
           R(ZMk(x[1].num.neg # x[2].num.neg,
                 NMul(x[1].num.mag, x[2].num.mag)),
             NMul(x[1].den, x[2].den))
      [] op = "RDiv" ->
           R(ZMk(x[1].num.neg # x[2].num.neg,
                 NMul(x[1].num.mag, x[2].den)),
             NMul(x[1].den, x[2].num.mag))
      [] op = "RCmp" ->
           IF x[1].den = x[2].den THEN ZCmp(x[1].num, x[2].num)
           ELSE ZCmp(ZMulN(x[1].num, x[2].den), ZMulN(x[2].num, x[1].den))
      [] op = "RoundToInt" ->
           IF RoundTooBig(x[1]) THEN OutOfRangeCast
           ELSE IF x[1].num.neg THEN {-RoundMag(x[1])} ELSE {RoundMag(x[1])}
      [] op = "Dec" ->
           IF x[2] >= 0 THEN R(ZOfInt(x[1]), NTen(x[2]))
           ELSE R(ZMulN(ZOfInt(x[1]), NTen(-x[2])), <<1>>)
      [] op = "RInt" -> R(ZOfInt(x[1]), <<1>>)
      [] op = "RNeg" -> R(ZNeg(x[1].num), x[1].den)
      [] op = "RSub" -> RAdd(x[1], RNeg(x[2]))
      [] op = "rgbToCmyk" -> rgbToCmyk(x[1])
      [] op = "cmykToRgb" -> cmykToRgb(x[1])
      [] op = "rgbToXyz" -> rgbToXyz(x[1])
      [] op = "xyzToRgb" -> xyzToRgb(x[1])
      [] op = "xyzToLab" -> xyzToLab(x[1])
      [] op = "labToXyz" -> labToXyz(x[1])
      [] op = "rgbToLab" -> rgbToLab(x[1])
      [] op = "labToRgb" -> labToRgb(x[1])
      [] op = "valueChanged" -> valueChanged(x[1], x[2])
      [] op = "editingFinished" -> editingFinished(x[1], x[2])
      [] op = "onRgbSliderChanged" -> onRgbSliderChanged(x[1])
      [] op = "onRgbEditChanged" -> onRgbEditChanged(x[1])
      [] op = "onLabSliderChanged" -> onLabSliderChanged(x[1])
      [] op = "onLabEditChanged" -> onLabEditChanged(x[1])
      [] op = "onCmykSliderChanged" -> onCmykSliderChanged(x[1])
      [] op = "onCmykEditChanged" -> onCmykEditChanged(x[1])
      [] op = "onOpenColorDialog" -> onOpenColorDialog(x[1], x[2])
      [] op = "MainWindow" -> MainWindow(x[1])

----------------------------------------------------------------------------
(* The engine under a caller: a value in one colour space, and one action  *)
(* per conversion that applies it to the current value.                    *)

\* Conversions a caller chains on one value
MaxCalls == 2

Rgb(r, g, b) == [space |-> "rgb", v |-> [r |-> r, g |-> g, b |-> b]]
Cmyk(c, m, y, k) == [space |-> "cmyk", v |-> [c |-> c, m |-> m, y |-> y, k |-> k]]
Xyz(X, Y, Z) == [space |-> "xyz", v |-> [X |-> X, Y |-> Y, Z |-> Z]]
Lab(L, a, b) == [space |-> "lab", v |-> [L |-> L, a |-> a, b |-> b]]

\* sRGB triples fed to the engine: the cube corners, the darkest colours,
\* and colours on both branches of invGamma
RgbInputs ==
    {Rgb(0, 0, 0), Rgb(255, 255, 255), Rgb(255, 0, 0), Rgb(0, 255, 0),
     Rgb(0, 0, 255), Rgb(0, 0, 1), Rgb(1, 1, 1), Rgb(128, 128, 128),
     Rgb(10, 11, 200), Rgb(12, 200, 50), Rgb(255, 255, 0), Rgb(254, 1, 77)}

\* CMYK values in hundredths, in [0,1] and out of it; the last one, in
\* units, overflows int
CmykInputs ==
    {Cmyk(Dec(t[1], t[5]), Dec(t[2], t[5]), Dec(t[3], t[5]), Dec(t[4], t[5])) :
        t \in {<<0, 0, 0, 0, 2>>, <<100, 100, 100, 100, 2>>,
               <<50, 25, 0, 10, 2>>, <<-100, 0, 200, 0, 2>>,
               <<0, 150, 0, -100, 2>>,
               <<-100000000, 0, 0, -100000000, 0>>}}

\* XYZ values as ratios (in 10^-9) to the reference white.  The first six
\* are ratios on which std::cbrt is exact: values on the linear branch of f
\* (negative, zero, up to the threshold itself) and cubes of short decimals
\* above the threshold.
XyzRatios ==
    {<<1000000000, 1000000000, 1000000000>>, <<0, 0, 0>>,
     <<8856000, 8869743, 1000000>>, <<27000000, 125000000, 1728000000>>,
     <<-500000000, 125000000, 8856000>>, <<125000000, 27000000, 27000000>>,
     <<500000000, 200000000, 300000000>>}

\* XYZ values as mantissa and decimal places of each component: outside the
\* sRGB gamut, the last one overflowing int
XyzDecimals ==
    {<<200, 0, 50, 0, -30, 0>>, <<4124, 2, 2126, 2, 193, 2>>,
     <<2, -18, 50, 0, 50, 0>>}

XyzInputs ==
    {Xyz(RMul(Dec(t[1], 9), REF_X), RMul(Dec(t[2], 9), REF_Y),
         RMul(Dec(t[3], 9), REF_Z)) : t \in XyzRatios}
    \cup {Xyz(Dec(t[1], t[2]), Dec(t[3], t[4]), Dec(t[5], t[6])) :
            t \in XyzDecimals}

\* Lab values, L in 10^-7 and a, b in units: in and out of the sRGB gamut,
\* on both branches of invf and between the two thresholds
LabDecimals ==
    {<<500000000, 120, 120>>, <<1000000000, 0, 0>>, <<0, 0, 0>>,
     <<500000000, 0, 0>>, <<79995764, 0, 0>>, <<80000000, 10, -10>>,
     <<600000000, -128, 127>>, <<-200000000, 0, 0>>}

\* the last one overflows int
LabInputs ==
    {Lab(Dec(t[1], 7), Dec(t[2], 0), Dec(t[3], 0)) : t \in LabDecimals}
    \cup {Lab(Dec(1, -9), Dec(0, 0), Dec(0, 0))}

NoValue == [space |-> "none"]

Call(fn, out) ==
    /\ Len(path) < MaxCalls
    /\ arg' = val
    /\ val' = out
    /\ path' = Append(path, fn)
    /\ UNCHANGED <<input, mw, edits>>

RgbToCmyk ==
    /\ val.space = "rgb"
    /\ Call("rgbToCmyk", [space |-> "cmyk", v |-> Eval("rgbToCmyk", <<val.v>>)])
    /\ UNCHANGED clip

CmykToRgb ==
    /\ val.space = "cmyk"
    /\ \E out \in Eval("cmykToRgb", <<val.v>>) :
          Call("cmykToRgb", [space |-> "rgb", v |-> out])
    /\ UNCHANGED clip

RgbToXyz ==
    /\ val.space = "rgb"
    /\ Call("rgbToXyz", [space |-> "xyz", v |-> Eval("rgbToXyz", <<val.v>>)])
    /\ UNCHANGED clip

XyzToRgb ==
    /\ val.space = "xyz"
    /\ \E out \in Eval("xyzToRgb", <<val.v>>) :
          /\ Call("xyzToRgb", [space |-> "rgb", v |-> out.rgb])
          /\ clip' = out.clipped

XyzToLab ==
    /\ val.space = "xyz"
    /\ Call("xyzToLab", [space |-> "lab", v |-> Eval("xyzToLab", <<val.v>>)])
    /\ UNCHANGED clip

LabToXyz ==
    /\ val.space = "lab"
    /\ Call("labToXyz", [space |-> "xyz", v |-> Eval("labToXyz", <<val.v>>)])
    /\ UNCHANGED clip

RgbToLab ==
    /\ val.space = "rgb"
    /\ Call("rgbToLab", [space |-> "lab", v |-> Eval("rgbToLab", <<val.v>>)])
    /\ UNCHANGED clip

LabToRgb ==
    /\ val.space = "lab"
    /\ \E out \in Eval("labToRgb", <<val.v>>) :
          /\ Call("labToRgb", [space |-> "rgb", v |-> out.rgb])
          /\ clip' = out.clipped

\* The harness before any call, on an input of the given set
Start(inputs) ==
    /\ input \in inputs
    /\ val = input
    /\ arg = NoValue
    /\ path = <<>>
    /\ clip = FALSE
    /\ mw = NoValue
    /\ edits = 0

Init == Start(RgbInputs \cup CmykInputs \cup XyzInputs \cup LabInputs)

Next ==
    \/ RgbToCmyk \/ CmykToRgb \/ RgbToXyz \/ XyzToRgb
    \/ XyzToLab \/ LabToXyz \/ RgbToLab \/ LabToRgb

Spec == Init /\ [][Next]_vars

----------------------------------------------------------------------------
(* The shell under a user: one action per handler, taken when the user's   *)
(* edit reaches it.                                                        *)

\* User edits in a session
MaxEdits == 2

\* The slider positions the user moves to
RgbSliderMoves == {<<"sR", 0>>, <<"sG", 128>>, <<"sB", 1>>}

LabSliderMoves == {<<"sL", 50>>, <<"sa", 120>>, <<"sb", -128>>}

CmykSliderMoves == {<<"sC", 100>>, <<"sM", 50>>, <<"sK", 100>>}

\* The texts the user types, each one acceptable to the edit's validator
RgbTexts == {<<"eG", <<"0", "0", "7">>>>, <<"eB", <<"0">>>>}

LabTexts == {<<"eL", <<"5", "0">>>>, <<"ea", <<"-", "1", "2", "8">>>>}

CmykTexts == {<<"eY", <<"1", "0", "0">>>>, <<"eK", <<"5", "0">>>>}

\* What the colour dialog returns: a colour, or an invalid one on Cancel
Colours ==
    {[valid |-> TRUE, r |-> 255, g |-> 0, b |-> 0],
     [valid |-> FALSE, r |-> 0, g |-> 0, b |-> 0]}

\* The user's edit leaves one of the given windows
UserEdit(windows) ==
    /\ mw' \in windows
    /\ edits' = edits + 1
    /\ UNCHANGED <<input, arg, val, path, clip>>

\* The user drags the slider mv[1] to mv[2]
Drag(mv) ==
    /\ mv[2] # mw.slider[mv[1]]
    /\ UserEdit(Eval("valueChanged",
                     <<[mw EXCEPT !.slider[mv[1]] = mv[2]], mv[1]>>))

\* The user types tx[2] into the line edit tx[1] and leaves it
Type(tx) ==
    UserEdit(Eval("editingFinished",
                  <<[mw EXCEPT !.text[tx[1]] = tx[2]], tx[1]>>))

OnRgbSliderChanged ==
    /\ edits < MaxEdits
    /\ \E mv \in RgbSliderMoves : Drag(mv)

OnRgbEditChanged ==
    /\ edits < MaxEdits
    /\ \E tx \in RgbTexts : Type(tx)

OnLabSliderChanged ==
    /\ edits < MaxEdits
    /\ \E mv \in LabSliderMoves : Drag(mv)

OnLabEditChanged ==
    /\ edits < MaxEdits
    /\ \E tx \in LabTexts : Type(tx)

OnCmykSliderChanged ==
    /\ edits < MaxEdits
    /\ \E mv \in CmykSliderMoves : Drag(mv)

OnCmykEditChanged ==
    /\ edits < MaxEdits
    /\ \E tx \in CmykTexts : Type(tx)

\* The user presses the palette button
OnOpenColorDialog ==
    /\ edits < MaxEdits
    /\ \E col \in Colours : UserEdit(Enter(mw, "onOpenColorDialog", <<col>>))

\* The window after construction
InitShell ==
    /\ mw \in Eval("MainWindow", <<Widgets>>)
    /\ edits = 0
    /\ input = NoValue
    /\ val = NoValue
    /\ arg = NoValue
    /\ path = <<>>
    /\ clip = FALSE

NextShell ==
    \/ OnRgbSliderChanged \/ OnRgbEditChanged
    \/ OnLabSliderChanged \/ OnLabEditChanged
    \/ OnCmykSliderChanged \/ OnCmykEditChanged
    \/ OnOpenColorDialog

SpecShell == InitShell /\ [][NextShell]_vars

----------------------------------------------------------------------------
(* The CMYK conversions under a caller on a grid of sRGB triples          *)

\* Channel levels of the grid: the ends, the middle, and their neighbours
Levels == {0, 1, 127, 128, 255}

RgbGrid == {Rgb(r, g, b) : r \in Levels, g \in Levels, b \in Levels}

InitCmyk == Start(RgbGrid)

NextCmyk == RgbToCmyk \/ CmykToRgb

SpecCmyk == InitCmyk /\ [][NextCmyk]_vars

----------------------------------------------------------------------------
(* Properties                                                              *)

\* the conversion called last
Last == IF path = <<>> THEN "none" ELSE path[Len(path)]

\* C1: cmykToRgb(rgbToCmyk(rgb)) is rgb itself, channel by channel, for
\* every sRGB triple, black (the k = 1 branch of rgbToCmyk) included.
CmykRoundTrip == path = <<"rgbToCmyk", "cmykToRgb">> => val = input

\* black has gone through rgbToCmyk and cmykToRgb and has come back
CmykRoundTripOfBlack ==
    path = <<"rgbToCmyk", "cmykToRgb">> /\ input = Rgb(0, 0, 0) /\ val = input

\* C2: xyzToRgb(rgbToXyz(rgb)) is rgb with clipped == false, for every sRGB
\* triple.  The code returns rgb, but with clipped == true for some triples
\* (white is one): this formula is violated.
XyzRoundTripUnclipped ==
    path = <<"rgbToXyz", "xyzToRgb">> => val = input /\ clip = FALSE

\* C3: xyzToRgb returns clipped == true exactly when a gamma-corrected
\* channel is below 0 or above 1; every channel is the rounded 255-fold of
\* its gamma-corrected value clamped to 0..255, flag or no flag; so without
\* the flag every channel is that rounded value itself.
ClippedIffOutOfUnit ==
    Last = "xyzToRgb" =>
        \A ch \in {gammaChannels(arg.v)} :
            /\ clip <=> \E c \in {ch.r, ch.g, ch.b} : RLt(c, Zero) \/ RGt(c, One)
            /\ \A p \in {<<ch.r, val.v.r>>, <<ch.g, val.v.g>>, <<ch.b, val.v.b>>} :
                  /\ \E x \in RoundToInt(RMul(p[1], RInt(255))) :
                        p[2] = IF x < 0 THEN 0 ELSE IF x > 255 THEN 255 ELSE x
                  /\ ~clip => p[2] \in RoundToInt(RMul(p[1], RInt(255)))

\* xyzToRgb has raised the flag on a red channel that rounds above 255
ClippedAboveRange ==
    /\ Last = "xyzToRgb"
    /\ clip
    /\ val.v.r = 255
    /\ \E x \in RoundToInt(RMul(gammaChannels(arg.v).r, RInt(255))) : x > 255

\* C4: every conversion into RGB (cmykToRgb, xyzToRgb, labToRgb) returns
\* channels in 0..255, on any input, out of its domain or of the gamut too.
ChannelsInRange ==
    Last \in {"cmykToRgb", "xyzToRgb", "labToRgb"} =>
        val.v.r \in 0..255 /\ val.v.g \in 0..255 /\ val.v.b \in 0..255

\* cmykToRgb has returned on CMYK components outside [0,1]
ChannelsOfWildCmyk ==
    /\ path = <<"cmykToRgb">>
    /\ input = Cmyk(Dec(0, 2), Dec(150, 2), Dec(0, 2), Dec(-100, 2))
    /\ val.v = [r |-> 255, g |-> 0, b |-> 255]

\* C5: on an sRGB triple rgbToCmyk returns k = 1 - max(r,g,b)/255 and c, m,
\* y, k in [0,1], dividing by no zero; black gives c = m = y = 0, k = 1 and
\* white gives c = m = y = k = 0.
CmykOfRgb ==
    Last = "rgbToCmyk" =>
        \A top \in {n \in {arg.v.r, arg.v.g, arg.v.b} :
                       \A o \in {arg.v.r, arg.v.g, arg.v.b} : o <= n} :
            /\ REq(val.v.k, RSub(One, RDiv(RInt(top), RInt(255))))
            /\ \A x \in {val.v.c, val.v.m, val.v.y, val.v.k} :
                  x.den # <<>> /\ RLe(Zero, x) /\ RLe(x, One)
            /\ top = 0 =>
                  /\ REq(val.v.c, Zero) /\ REq(val.v.m, Zero)
                  /\ REq(val.v.y, Zero) /\ REq(val.v.k, One)
            /\ arg.v = [r |-> 255, g |-> 255, b |-> 255] =>
                  \A x \in {val.v.c, val.v.m, val.v.y, val.v.k} : REq(x, Zero)

\* rgbToCmyk has returned on black
CmykOfBlack ==
    path = <<"rgbToCmyk">> /\ input = Rgb(0, 0, 0) /\ REq(val.v.k, One)

\* C6: labToRgb returns what xyzToRgb returns on labToXyz(lab), the flag
\* with it, and on L = 50, a = 120, b = 120 the flag is raised.
LabToRgbFlag ==
    Last = "labToRgb" =>
        /\ [rgb |-> val.v, clipped |-> clip]
              \in Eval("xyzToRgb", <<Eval("labToXyz", <<arg.v>>)>>)
        /\ (/\ REq(arg.v.L, RInt(50)) /\ REq(arg.v.a, RInt(120))
            /\ REq(arg.v.b, RInt(120))) => clip

\* labToRgb has returned on L = 50, a = 120, b = 120
LabOutOfGamut ==
    /\ path = <<"labToRgb">>
    /\ REq(input.v.L, RInt(50))
    /\ REq(input.v.a, RInt(120))
    /\ REq(input.v.b, RInt(120))
    /\ clip
    /\ val.v = [r |-> 255, g |-> 0, b |-> 0]

\* the window's Lab sliders as a Lab value
LabShown ==
    [L |-> RInt(mw.slider.sL), a |-> RInt(mw.slider.sa), b |-> RInt(mw.slider.sb)]

\* C7: after any user edits the warning label holds a text exactly when the
\* last edit was a Lab edit whose labToRgb call returned clipped == true.
WarningIffClippedLab ==
    mw.warningLabel # "" <=>
        /\ mw.lastSet = "setFromLab"
        /\ \E out \in Eval("labToRgb", <<LabShown>>) : out.clipped

\* the user has dragged a to 120 and the warning is up
WarningShown ==
    /\ edits > 0
    /\ mw.lastSet = "setFromLab"
    /\ mw.slider.sa = 120
    /\ mw.warningLabel = WarningText

\* cbrt(t)^3 = t: std::cbrt has returned the real root of the ratio t
ExactCbrt(t) == REq(RMul(RMul(cbrt(t), cbrt(t)), cbrt(t)), t)

\* C8: labToXyz(xyzToLab(xyz)) is xyz in exact arithmetic, that is when
\* std::cbrt returns the real root of every ratio above the threshold of f,
\* for ratios on either side of the threshold, zero and negative included.
XyzRoundTrip ==
    (/\ path = <<"xyzToLab", "labToXyz">>
     /\ \A t \in {RDiv(input.v.X, REF_X), RDiv(input.v.Y, REF_Y),
                  RDiv(input.v.Z, REF_Z)} :
           RGt(t, Dec(8856, 6)) => ExactCbrt(t))
    => /\ REq(val.v.X, input.v.X)
       /\ REq(val.v.Y, input.v.Y)
       /\ REq(val.v.Z, input.v.Z)

\* an XYZ value with a negative ratio, one above and one on the threshold
\* has gone through xyzToLab and labToXyz
XyzRoundTripAcrossThreshold ==
    /\ path = <<"xyzToLab", "labToXyz">>
    /\ input = Xyz(RMul(Dec(-500000000, 9), REF_X),
                   RMul(Dec(125000000, 9), REF_Y),
                   RMul(Dec(8856000, 9), REF_Z))
    /\ REq(val.v.X, input.v.X)

\* |a - b| <= 10^-5: above what the PowDigits places of std::cbrt can cost
\* L, a or b
Near(a, b) == RLe(RSub(a, b), Dec(1, 5)) /\ RLe(RSub(b, a), Dec(1, 5))

\* C9: xyzToLab(labToXyz(lab)) is lab for every Lab value.  The code returns
\* another L for an fy between the two thresholds (L = 7.9995764 comes back
\* as 7.9996144): this formula is violated.
LabRoundTrip ==
    path = <<"labToXyz", "xyzToLab">> =>
        /\ Near(val.v.L, input.v.L)
        /\ Near(val.v.a, input.v.a)
        /\ Near(val.v.b, input.v.b)

\* C10: the program calls setValue only while internalUpdate is true, no
\* handler is entered while another one runs, a user edit runs exactly one
\* of setFromRGB, setFromLab, setFromCmyk, and internalUpdate is false once
\* the handler has returned.
NoFeedback ==
    /\ ~mw.loose
    /\ ~mw.reentered
    /\ mw.active = 0
    /\ mw.internalUpdate = FALSE
    /\ Len(mw.setFrom) = 1

\* a user edit has moved sliders under the guard: their valueChanged
\* callbacks did nothing
SignalsMuted ==
    edits > 0 /\ mw.muted > 0 /\ mw.setFrom = <<"setFromCmyk">>

=============================================================================
